---------------------------- MODULE Spec2Model ----------------------------
(***************************************************************************)
(* A model of lib/AST/Expr.cpp: the conversion-rank engine                 *)
(* (getConversionRank, getTupleToTupleTypeConversionRank), the expression  *)
(* walker (ExprWalker) and the debug printer (PrintExpr).                  *)
(***************************************************************************)
EXTENDS Integers, Sequences, FiniteSets, TLC

(***************************************************************************)
(* Bounds of the model.                                                    *)
(***************************************************************************)
\* Largest number of elements of a source tuple (literal or tuple-typed value).
MaxElems == 2
\* Largest number of fields of a destination tuple type.
MaxFields == 2
\* Largest number of nodes of a tree handed to the walker or the printer.
MaxNodes == 4

(***************************************************************************)
(* Types (swift/AST/Types.h, consumed by Expr.cpp through getCanonicalType,*)
(* getAs<>, is<>, TupleType::Fields, FunctionType::Result).                *)
(***************************************************************************)
BuiltinTy(n) == [kind |-> "Builtin", name |-> n]
IntTy == BuiltinTy("Int")
BoolTy == BuiltinTy("Bool")
\* A named alias: sugar that canonicalization removes.
AliasTy(n, T) == [kind |-> "NameAlias", name |-> n, Under |-> T]
DependentTy == [kind |-> "Dependent"]
FunctionTy(R) == [kind |-> "Function", Result |-> R]
\* Fields: a sequence of TupleTypeElt, [Name, Ty, Init]; Init is TRUE when the
\* field carries a default value (TupleTypeElt::Init != 0).
TupleTy(F) == [kind |-> "Tuple", Fields |-> F]
TupleTypeElt(n, T, i) == [Name |-> n, Ty |-> T, Init |-> i]

RECURSIVE getCanonicalType(_)
getCanonicalType(T) ==
  CASE T.kind = "NameAlias" -> getCanonicalType(T.Under)
    [] T.kind = "Function" -> FunctionTy(getCanonicalType(T.Result))
    [] T.kind = "Tuple" ->
         TupleTy([i \in 1..Len(T.Fields) |->
                    TupleTypeElt(T.Fields[i].Name,
                                 getCanonicalType(T.Fields[i].Ty),
                                 T.Fields[i].Init)])
    [] OTHER -> T

\* The type with its top-level sugar removed, as getAs<> and is<> look at it.
RECURSIVE getDesugaredType(_)
getDesugaredType(T) ==
  IF T.kind = "NameAlias" THEN getDesugaredType(T.Under) ELSE T

isTupleType(T) == getDesugaredType(T).kind = "Tuple"
isFunctionType(T) == getDesugaredType(T).kind = "Function"
isDependentType(T) == getDesugaredType(T).kind = "Dependent"
\* T->getAs<TupleType>()->Fields, for a T that is a tuple type.
FieldsOf(T) == getDesugaredType(T).Fields
\* TupleType::getElementType(i), i counted from 0.
getElementType(T, i) == FieldsOf(T)[i + 1].Ty
\* T->getAs<FunctionType>()->Result, for a T that is a function type.
ResultOf(T) == getDesugaredType(T).Result

\* TupleType::getFieldForScalarInit: the index (from 0) of the only field
\* without a default value, -1 when there is none or more than one.
getFieldForScalarInit(T) ==
  LET F == FieldsOf(T)
      noDefault == {i \in 1..Len(F) : ~F[i].Init}
  IN IF Cardinality(noDefault) = 1
       THEN (CHOOSE i \in noDefault : TRUE) - 1
       ELSE -1

(***************************************************************************)
(* Expr::ConversionRank, ordered CR_Identity < CR_AutoClosure < CR_Invalid.*)
(***************************************************************************)
CR_Identity == 0
CR_AutoClosure == 1
CR_Invalid == 2
ConversionRank == {CR_Identity, CR_AutoClosure, CR_Invalid}
\* std::max on two ranks
MaxRank(a, b) == IF a >= b THEN a ELSE b

(***************************************************************************)
(* Expressions, as far as the rank engine reads them: the node kind, the   *)
(* type Ty, and for a TupleExpr its SubExprs and isGroupingParen().        *)
(***************************************************************************)
LeafExpr(k, T) ==
  [Kind |-> k, Ty |-> T, SubExprs |-> <<>>, GroupingParen |-> FALSE]
TupleExprOf(T, subs, paren) ==
  [Kind |-> "TupleExpr", Ty |-> T, SubExprs |-> subs, GroupingParen |-> paren]
isTupleExpr(E) == E.Kind = "TupleExpr"
isGroupingParen(E) == E.GroupingParen
NumSubExprs(E) == Len(E.SubExprs)


(***************************************************************************)
(* getTupleToTupleTypeConversionRank, Expr.cpp:101-236.                    *)
(* Element and field indices are counted from 0 as in the code; -1 in      *)
(* DestElementSources is "no source yet", -2 is "use the default value".   *)
(***************************************************************************)
\* IdentList: the names of the source elements, taken from E->Ty when it is a
\* tuple type, default-constructed (empty) otherwise (lines 109, 118-121).
IdentListOf(E, NumExprElements) ==
  IF isTupleType(E.Ty)
    THEN [j \in 1..NumExprElements |-> FieldsOf(E.Ty)[j].Name]
    ELSE [j \in 1..NumExprElements |-> ""]

\* The inner loop of lines 132-136: the first source element, from index j on,
\* whose name is Name; -1 when there is none.
RECURSIVE FindNamedInput(_, _, _)
FindNamedInput(IdentList, Name, j) ==
  IF j = Len(IdentList) THEN -1
  ELSE IF IdentList[j + 1] = Name THEN j
  ELSE FindNamedInput(IdentList, Name, j + 1)

\* The loop of lines 125-141 from destination field i on; st is
\* [Sources |-> DestElementSources, Used |-> UsedElements].
RECURSIVE NamedLoop(_, _, _, _)
NamedLoop(DestFields, IdentList, i, st) ==
  IF i = Len(DestFields) THEN st
  ELSE IF DestFields[i + 1].Name = "" THEN NamedLoop(DestFields, IdentList, i + 1, st)
  ELSE LET InputElement == FindNamedInput(IdentList, DestFields[i + 1].Name, 0)
       IN IF InputElement = -1
            THEN NamedLoop(DestFields, IdentList, i + 1, st)
            ELSE NamedLoop(DestFields, IdentList, i + 1,
                   [Sources |-> [st.Sources EXCEPT ![i + 1] = InputElement],
                    Used |-> [st.Used EXCEPT ![InputElement + 1] = TRUE]])

\* Lines 115-142: the bookkeeping after the named pass, which runs only when
\* E->Ty is a tuple type.
NamedPass(E, NumExprElements, DestTy) ==
  LET st0 == [Sources |-> [i \in 1..Len(FieldsOf(DestTy)) |-> -1],
              Used |-> [j \in 1..NumExprElements |-> FALSE]]
  IN IF isTupleType(E.Ty)
       THEN NamedLoop(FieldsOf(DestTy), IdentListOf(E, NumExprElements), 0, st0)
       ELSE st0

\* The while loop of lines 152-162: advance NextInputValue to the next unused,
\* unnamed source element, or to NumExprElements.
RECURSIVE ScanInput(_, _, _)
ScanInput(IdentList, Used, NextInputValue) ==
  IF NextInputValue = Len(IdentList) THEN NextInputValue
  ELSE IF ~Used[NextInputValue + 1] /\ IdentList[NextInputValue + 1] = ""
    THEN NextInputValue
  ELSE ScanInput(IdentList, Used, NextInputValue + 1)

\* What line 168 does when the source is exhausted at destination field Field:
\* TRUE when the reconciliation fails (the field has no default value).
MissingDefault(Field) == ~Field.Init

\* The loop of lines 147-180 from destination field i on. The result carries
\* Failed = TRUE when line 169 returned CR_Invalid.
RECURSIVE PositionalLoop(_, _, _, _, _)
PositionalLoop(DestFields, IdentList, i, NextInputValue, st) ==
  IF i = Len(DestFields)
    THEN [Sources |-> st.Sources, Used |-> st.Used, Failed |-> FALSE]
  ELSE IF st.Sources[i + 1] # -1
    THEN PositionalLoop(DestFields, IdentList, i + 1, NextInputValue, st)
  ELSE LET Found == ScanInput(IdentList, st.Used, NextInputValue)
       IN IF Found = Len(IdentList)
            THEN IF MissingDefault(DestFields[i + 1])
                   THEN [Sources |-> st.Sources, Used |-> st.Used, Failed |-> TRUE]
                   ELSE PositionalLoop(DestFields, IdentList, i + 1, Found,
                          [Sources |-> [st.Sources EXCEPT ![i + 1] = -2],
                           Used |-> st.Used])
            ELSE PositionalLoop(DestFields, IdentList, i + 1, Found,
                   [Sources |-> [st.Sources EXCEPT ![i + 1] = Found],
                    Used |-> [st.Used EXCEPT ![Found + 1] = TRUE]])

\* Lines 144-180.
PositionalPass(E, NumExprElements, DestTy, st) ==
  PositionalLoop(FieldsOf(DestTy), IdentListOf(E, NumExprElements), 0, 0, st)

\* Lines 182-185 with the loop stopping one element early.
HasUnusedInputMutant(Used) == \E j \in 1..(Len(Used) - 1) : ~Used[j]

\* Lines 182-185: TRUE when some source element is unused.
HasUnusedInput(Used) == \E j \in 1..Len(Used) : ~Used[j]

\* The condition of line 191: the ranks are computed element by element on the
\* sub-expressions of the literal.
ConvertsInPlace(E, DestTy) ==
  /\ isTupleExpr(E)
  /\ NumSubExprs(E) # 1
  /\ NumSubExprs(E) = Len(FieldsOf(DestTy))

\* Lines 230-231 accepting also a field whose type is a function type that
\* produces the element's type.
ElementTypesMatchMutant(ETy, DestTy, SrcField, i) ==
  \/ getCanonicalType(getElementType(ETy, SrcField))
       = getCanonicalType(getElementType(DestTy, i))
  \/ /\ isFunctionType(getElementType(DestTy, i))
     /\ getCanonicalType(getElementType(ETy, SrcField))
          = getCanonicalType(ResultOf(getElementType(DestTy, i)))

\* Lines 230-231: source element SrcField and destination field i have the
\* same canonical type.
ElementTypesMatch(ETy, DestTy, SrcField, i) ==
  getCanonicalType(getElementType(ETy, SrcField))
    = getCanonicalType(getElementType(DestTy, i))

\* Lines 218-235: the element types must match up exactly.
RECURSIVE StructuralLoop(_, _, _, _)
StructuralLoop(ETy, DestTy, Sources, i) ==
  IF i = Len(FieldsOf(DestTy)) THEN CR_Identity
  ELSE IF Sources[i + 1] = -2 THEN StructuralLoop(ETy, DestTy, Sources, i + 1)
  ELSE IF ~ElementTypesMatch(ETy, DestTy, Sources[i + 1], i)
    THEN CR_Invalid
  ELSE StructuralLoop(ETy, DestTy, Sources, i + 1)

RECURSIVE getConversionRank(_, _)
RECURSIVE getTupleToTupleTypeConversionRank(_, _, _)

\* Lines 192-213: the worst rank of the bound elements.
RECURSIVE LiteralLoop(_, _, _, _, _)
LiteralLoop(TE, DestTy, Sources, i, CurRank) ==
  IF i = Len(FieldsOf(DestTy)) THEN CurRank
  ELSE IF Sources[i + 1] = -2 THEN LiteralLoop(TE, DestTy, Sources, i + 1, CurRank)
  ELSE LiteralLoop(TE, DestTy, Sources, i + 1,
         MaxRank(CurRank,
                 getConversionRank(TE.SubExprs[Sources[i + 1] + 1],
                                   getElementType(DestTy, i))))

\* Lines 187-235: the rank once the elements line up.
ElementsRank(E, DestTy, Sources) ==
  IF ConvertsInPlace(E, DestTy)
    THEN LiteralLoop(E, DestTy, Sources, 0, CR_Identity)
    ELSE StructuralLoop(E.Ty, DestTy, Sources, 0)

getTupleToTupleTypeConversionRank(E, NumExprElements, DestTy) ==
  LET named == NamedPass(E, NumExprElements, DestTy)
      bound == PositionalPass(E, NumExprElements, DestTy, named)
  IN IF bound.Failed THEN CR_Invalid
     ELSE IF HasUnusedInput(bound.Used) THEN CR_Invalid
     ELSE ElementsRank(E, DestTy, bound.Sources)

(***************************************************************************)
(* getConversionRank, Expr.cpp:244-290.  The assertion of line 246 is the  *)
(* callers' obligation: DestTy is not a dependent type.                    *)
(***************************************************************************)
\* Line 250 with the exact-match test applied to scalar types only.
IsExactMatchMutant(E, DestTy) ==
  /\ ~isTupleType(DestTy)
  /\ getCanonicalType(E.Ty) = getCanonicalType(DestTy)

\* Line 250: exact matches are identity conversions.
IsExactMatch(E, DestTy) == getCanonicalType(E.Ty) = getCanonicalType(DestTy)

\* Lines 282-285 returning the rank of the conversion to the result type.
FunctionRankMutant(Inner) == Inner

\* Lines 282-285: the rank of converting to a function type, from the rank
\* Inner of converting to its result type.
FunctionRank(Inner) == IF Inner = CR_Invalid THEN CR_Invalid ELSE CR_AutoClosure

\* Lines 264-265 with the scalar conversion kept for expressions whose own type
\* is not a tuple type.
PromotesScalarMutant(E, DestTy) ==
  getFieldForScalarInit(DestTy) # -1 /\ ~isTupleType(E.Ty)

\* Lines 264-265: the destination tuple type has a field for a scalar
\* initializer, whatever the type of the expression is.
PromotesScalar(E, DestTy) == getFieldForScalarInit(DestTy) # -1

getConversionRank(E, DestTy) ==
  IF IsExactMatch(E, DestTy) THEN CR_Identity
  ELSE IF isTupleExpr(E) /\ isGroupingParen(E)
    THEN getConversionRank(E.SubExprs[1], DestTy)
  ELSE IF isTupleType(DestTy) /\ isTupleExpr(E)
    THEN getTupleToTupleTypeConversionRank(E, NumSubExprs(E), DestTy)
  ELSE IF isTupleType(DestTy) /\ PromotesScalar(E, DestTy)
    THEN getConversionRank(E, getElementType(DestTy, getFieldForScalarInit(DestTy)))
  ELSE IF isTupleType(DestTy) /\ isTupleType(E.Ty)
    THEN getTupleToTupleTypeConversionRank(E, Len(FieldsOf(E.Ty)), DestTy)
  ELSE IF isFunctionType(DestTy)
    THEN FunctionRank(getConversionRank(E, ResultOf(DestTy)))
  ELSE CR_Invalid

\* Expr::getRankOfConversionTo, lines 294-297.
getRankOfConversionTo(E, DestTy) == getConversionRank(E, DestTy)


(***************************************************************************)
(* The inputs of the rank engine: source expressions and destination types *)
(* of bounded size.                                                         *)
(***************************************************************************)
\* Identifiers; "" is the empty Identifier of an unnamed element or field.
Names == {"", "x", "y"}
IntAlias == AliasTy("MyInt", IntTy)
FnIntTy == FunctionTy(IntTy)

\* A source element: its name and the type of the element expression.
ElemChoices == (Names \X {IntTy}) \cup {<<"", BoolTy>>, <<"x", BoolTy>>}
ElemSeqs == UNION {[1..n -> ElemChoices] : n \in 0..MaxElems}
\* A single unnamed element in parentheses is a grouping parenthesis.
IsParenShape(es) == Len(es) = 1 /\ es[1][1] = ""
ElemsTy(es) ==
  TupleTy([j \in 1..Len(es) |-> TupleTypeElt(es[j][1], es[j][2], FALSE)])
\* The tuple literal with elements es; its type is the tuple type of its
\* elements' names and types, or the sub-expression's type for a grouping
\* parenthesis.
TupleLiteral(es) ==
  IF IsParenShape(es)
    THEN TupleExprOf(es[1][2], <<LeafExpr("DeclRefExpr", es[1][2])>>, TRUE)
    ELSE TupleExprOf(ElemsTy(es),
                     [j \in 1..Len(es) |-> LeafExpr("DeclRefExpr", es[j][2])],
                     FALSE)
\* An expression of tuple type that is not a literal (the result of a call).
TupleValue(es) == LeafExpr("ApplyExpr", ElemsTy(es))

ScalarExprs ==
  {LeafExpr(k, T) : k \in {"DeclRefExpr", "ApplyExpr"},
                    T \in {IntTy, BoolTy, IntAlias, FnIntTy, DependentTy}}
SourceExprs ==
  ScalarExprs
    \cup {TupleLiteral(es) : es \in ElemSeqs}
    \cup {TupleValue(es) : es \in {s \in ElemSeqs : ~IsParenShape(s)}}
    \cup {TupleExprOf(ElemsTy(es), <<TupleLiteral(es)>>, TRUE) :
            es \in {s \in ElemSeqs : Len(s) = 1}}

\* A destination field: its name, its type, whether it has a default value.
FieldChoices == (Names \X {IntTy} \X BOOLEAN) \cup (Names \X {FnIntTy} \X {FALSE})
FieldSeqs == UNION {[1..n -> FieldChoices] : n \in 0..MaxFields}
DestTuple(fs) ==
  TupleTy([i \in 1..Len(fs) |-> TupleTypeElt(fs[i][1], fs[i][2], fs[i][3])])
DestTupleTypes == {DestTuple(fs) : fs \in FieldSeqs}
ScalarDestTypes ==
  {IntTy, BoolTy, IntAlias, FnIntTy, FunctionTy(FnIntTy), FunctionTy(IntAlias),
   FunctionTy(DestTuple(<<<<"x", IntTy, FALSE>>, <<"y", FnIntTy, FALSE>>>>)),
   AliasTy("Pair", DestTuple(<<<<"x", IntTy, FALSE>>, <<"y", IntTy, FALSE>>>>))}
DestTypes == DestTupleTypes \cup ScalarDestTypes

(***************************************************************************)
(* The rank engine as a state machine: one conversion query per behaviour. *)
(* A query that getConversionRank hands straight to                        *)
(* getTupleToTupleTypeConversionRank (lines 261 and 275) runs pass by pass,*)
(* every other query in one step.                                          *)
(***************************************************************************)
VARIABLES
  \* the rank engine: the query, the position in it, its answer and the
  \* bookkeeping of getTupleToTupleTypeConversionRank
  E, DestTy, pc, Rank, DestElementSources, UsedElements,
  \* the expression tree in the arena: node n has kind Kind[n] and the child
  \* slots Slots[n] (0 is a null pointer); DeclSlots[n] are the elements of a
  \* BraceExpr that hold a declaration, whose slot is the ValueDecl's Init
  \* OrigSlots keeps the child slots as they were before the walk
  Kind, Slots, DeclSlots, OrigSlots,
  \* the walker: the call stack of ProcessNode/Visit, the argument and the
  \* result of the ProcessNode call at hand, the visitor calls made so far,
  \* and what WalkExpr returned
  Stack, Cur, Ret, wpc, Log, Result,
  \* the printer: the output stream
  OS, ppc

rankVars == <<E, DestTy, pc, Rank, DestElementSources, UsedElements>>
treeVars == <<Kind, Slots, DeclSlots, OrigSlots>>
walkVars == <<Stack, Cur, Ret, wpc, Log, Result>>
printVars == <<OS, ppc>>
vars == <<rankVars, treeVars, walkVars, printVars>>

\* The components a specification leaves alone.
IdleRank ==
  /\ E = LeafExpr("IntegerLiteral", IntTy) /\ DestTy = IntTy /\ pc = "idle"
  /\ Rank = -1 /\ DestElementSources = <<>> /\ UsedElements = <<>>
IdleTree == Kind = <<>> /\ Slots = <<>> /\ DeclSlots = <<>> /\ OrigSlots = <<>>
IdleWalk ==
  /\ Stack = <<>> /\ Cur = 0 /\ Ret = 0 /\ wpc = "idle" /\ Log = <<>> /\ Result = 0
IdlePrint == OS = <<>> /\ ppc = "idle"

\* The number of source elements getConversionRank passes on (lines 261, 275).
NumExprElements(e) ==
  IF isTupleExpr(e) THEN NumSubExprs(e) ELSE Len(FieldsOf(e.Ty))

\* The query reaches line 261 or line 275 without recursion.
ReconcilesDirectly(e, d) ==
  /\ ~IsExactMatch(e, d)
  /\ ~(isTupleExpr(e) /\ isGroupingParen(e))
  /\ isTupleType(d)
  /\ \/ isTupleExpr(e)
     \/ ~PromotesScalar(e, d) /\ isTupleType(e.Ty)

InitRank ==
  /\ E \in SourceExprs
  /\ DestTy \in {d \in DestTypes \cup {E.Ty} : ~isDependentType(d)}
  /\ pc = "call"
  /\ Rank = -1
  /\ DestElementSources = <<>>
  /\ UsedElements = <<>>
  /\ IdleTree /\ IdleWalk /\ IdlePrint

\* getRankOfConversionTo for a query answered without a direct reconciliation.
Convert ==
  /\ pc = "call"
  /\ ~ReconcilesDirectly(E, DestTy)
  /\ Rank' = getRankOfConversionTo(E, DestTy)
  /\ pc' = "done"
  /\ UNCHANGED <<E, DestTy, DestElementSources, UsedElements, treeVars, walkVars, printVars>>

\* Lines 109-142.
RunNamedPass ==
  /\ pc = "call"
  /\ ReconcilesDirectly(E, DestTy)
  /\ LET st == NamedPass(E, NumExprElements(E), DestTy)
     IN /\ DestElementSources' = st.Sources
        /\ UsedElements' = st.Used
  /\ pc' = "positional"
  /\ UNCHANGED <<E, DestTy, Rank, treeVars, walkVars, printVars>>

\* Lines 144-180.
RunPositionalPass ==
  /\ pc = "positional"
  /\ LET st == PositionalPass(E, NumExprElements(E), DestTy,
                              [Sources |-> DestElementSources, Used |-> UsedElements])
     IN /\ DestElementSources' = st.Sources
        /\ UsedElements' = st.Used
        /\ IF st.Failed
             THEN Rank' = CR_Invalid /\ pc' = "done"
             ELSE Rank' = Rank /\ pc' = "unused"
  /\ UNCHANGED <<E, DestTy, treeVars, walkVars, printVars>>

\* Lines 182-185.
RunUnusedCheck ==
  /\ pc = "unused"
  /\ IF HasUnusedInput(UsedElements)
       THEN Rank' = CR_Invalid /\ pc' = "done"
       ELSE Rank' = Rank /\ pc' = "elements"
  /\ UNCHANGED <<E, DestTy, DestElementSources, UsedElements, treeVars, walkVars, printVars>>

\* Lines 187-235.
RunElementsRank ==
  /\ pc = "elements"
  /\ Rank' = ElementsRank(E, DestTy, DestElementSources)
  /\ pc' = "done"
  /\ UNCHANGED <<E, DestTy, DestElementSources, UsedElements, treeVars, walkVars, printVars>>

NextRank ==
  \/ Convert
  \/ RunNamedPass
  \/ RunPositionalPass
  \/ RunUnusedCheck
  \/ RunElementsRank

SpecRank == InitRank /\ [][NextRank]_vars

\* The pass-by-pass run and the function agree on every direct reconciliation.
StepwiseAgrees ==
  (pc = "done" /\ ReconcilesDirectly(E, DestTy))
    => Rank = getConversionRank(E, DestTy)


(***************************************************************************)
(* Properties of the rank engine.                                          *)
(***************************************************************************)
\* A reconciliation ran to its end and every pass succeeded: no destination
\* field is left without a source and no source element is unused.
BindingsSucceeded ==
  /\ pc = "done"
  /\ ReconcilesDirectly(E, DestTy)
  /\ \A i \in 1..Len(DestElementSources) : DestElementSources[i] # -1
  /\ ~\E j \in 1..Len(UsedElements) : ~UsedElements[j]

\* The destination fields that have no default value.
FieldsWithoutDefault(d) == {i \in 1..Len(FieldsOf(d)) : ~FieldsOf(d)[i].Init}

\* C1: for every expression e whose type is not dependent, the rank of
\* converting e to its own type is Identity, whatever variant e is.
C1_RankToOwnTypeIsIdentity ==
  (pc = "done" /\ DestTy = E.Ty) => Rank = CR_Identity

\* C1 witness: a two-element tuple literal converted to its own tuple type.
C1_Witness ==
  /\ pc = "done"
  /\ DestTy = E.Ty
  /\ isTupleExpr(E) /\ ~isGroupingParen(E) /\ NumSubExprs(E) = 2
  /\ Rank = CR_Identity

\* C2: when the destination is a tuple type and the source is a tuple literal
\* that is not a grouping parenthesis, a reconciliation whose bindings succeed
\* has the maximum of the ranks of the bound elements against their fields'
\* types (Identity if none is bound), also when the literal has fewer
\* elements than the destination has fields.
C2_LiteralModeForEveryLiteral ==
  (BindingsSucceeded /\ isTupleExpr(E))
    => Rank = LiteralLoop(E, DestTy, DestElementSources, 0, CR_Identity)

\* C3: a source tuple with fewer elements than the destination has fields
\* without a default value reconciles to Invalid, whatever the names are.
C3_ArityFailure ==
  ( /\ pc = "done"
    /\ ReconcilesDirectly(E, DestTy)
    /\ NumExprElements(E) < Cardinality(FieldsWithoutDefault(DestTy)) )
    => Rank = CR_Invalid

\* C4: when a reconciliation returns a rank other than Invalid, every source
\* element is marked used, every destination field is bound to a source
\* element index or to use-default, use-default only on fields that have a
\* default value; and a source with more elements than the destination has
\* fields gives Invalid.
C4_SuccessBindsEverything ==
  (pc = "done" /\ ReconcilesDirectly(E, DestTy))
    => /\ Rank # CR_Invalid =>
            /\ Len(UsedElements) = NumExprElements(E)
            /\ \A j \in 1..Len(UsedElements) : UsedElements[j]
            /\ Len(DestElementSources) = Len(FieldsOf(DestTy))
            /\ \A i \in 1..Len(DestElementSources) :
                 \/ DestElementSources[i] \in 0..(NumExprElements(E) - 1)
                 \/ DestElementSources[i] = -2 /\ FieldsOf(DestTy)[i].Init
       /\ NumExprElements(E) > Len(FieldsOf(DestTy)) => Rank = CR_Invalid

\* C4 witness: a successful reconciliation that binds one field to a source
\* element and fills another from its default value.
C4_Witness ==
  /\ pc = "done"
  /\ ReconcilesDirectly(E, DestTy)
  /\ Rank # CR_Invalid
  /\ \E i, k \in 1..Len(DestElementSources) :
       DestElementSources[i] = -2 /\ DestElementSources[k] >= 0

\* C5: converting an expression that is not a grouping parenthesis to a
\* function type that is not canonically its own type gives Invalid when the
\* conversion to the result type is Invalid and AutoClosure in every other
\* case, never Identity.
C5_ClosurePromotion ==
  ( /\ pc = "done"
    /\ isFunctionType(DestTy)
    /\ ~IsExactMatch(E, DestTy)
    /\ ~(isTupleExpr(E) /\ isGroupingParen(E)) )
    => /\ Rank # CR_Identity
       /\ Rank = IF getConversionRank(E, ResultOf(DestTy)) = CR_Invalid
                   THEN CR_Invalid
                   ELSE CR_AutoClosure

\* C5 witness: an Int-typed expression converted to a function type whose
\* result is itself a function type producing Int (the inner rank is
\* AutoClosure).
C5_Witness ==
  /\ pc = "done"
  /\ DestTy = FunctionTy(FnIntTy)
  /\ E = LeafExpr("DeclRefExpr", IntTy)
  /\ getConversionRank(E, ResultOf(DestTy)) = CR_AutoClosure
  /\ Rank = CR_AutoClosure

\* C11: the named pass binds a destination field only to a source element
\* that no earlier binding uses, so at every point of a reconciliation no
\* source element is the source of more than one destination field, also
\* when two destination fields carry the same name.
C11_NoElementBoundTwice ==
  \A i, k \in 1..Len(DestElementSources) :
    (i # k /\ DestElementSources[i] >= 0)
      => DestElementSources[i] # DestElementSources[k]

\* C12: when the destination is a tuple type, the source is not a tuple
\* literal, the two types are not canonically equal and exactly one
\* destination field has no default value, the rank is the rank of converting
\* the expression to that field's type, also when the expression's own type
\* is a tuple type.
C12_ScalarPromotionFirst ==
  ( /\ pc = "done"
    /\ isTupleType(DestTy)
    /\ ~isTupleExpr(E)
    /\ ~IsExactMatch(E, DestTy)
    /\ Cardinality(FieldsWithoutDefault(DestTy)) = 1 )
    => /\ DestElementSources = <<>>
       /\ \A i \in FieldsWithoutDefault(DestTy) :
            Rank = getConversionRank(E, FieldsOf(DestTy)[i].Ty)

\* C12 witness: a call result of type (x: Int, y: Int) converted to a tuple
\* type of two fields of which only the first has no default value; the
\* fields would line up by name, the scalar conversion to Int is Invalid.
C12_Witness ==
  /\ pc = "done"
  /\ ~isTupleExpr(E)
  /\ isTupleType(E.Ty) /\ Len(FieldsOf(E.Ty)) = 2
  /\ isTupleType(DestTy) /\ Len(FieldsOf(DestTy)) = 2
  /\ ~IsExactMatch(E, DestTy)
  /\ FieldsWithoutDefault(DestTy) = {1}
  /\ \A i \in 1..2 : /\ FieldsOf(DestTy)[i].Name = FieldsOf(E.Ty)[i].Name
                      /\ FieldsOf(DestTy)[i].Name # ""
                      /\ FieldsOf(DestTy)[i].Ty = FieldsOf(E.Ty)[i].Ty
  /\ Rank = CR_Invalid

\* The destination fields bound to a source element.
BoundFields == {i \in 1..Len(DestElementSources) : DestElementSources[i] >= 0}

\* C13: when an expression of tuple type that is not a tuple literal is
\* reconciled against a destination tuple type and the bindings succeed, the
\* rank is Identity if every destination field bound to a source element has
\* the canonical type of that element and Invalid otherwise, never
\* AutoClosure; fields bound to use-default are not compared.
C13_StructuralModeIsExact ==
  (BindingsSucceeded /\ ~isTupleExpr(E))
    => /\ Rank # CR_AutoClosure
       /\ Rank = IF \A i \in BoundFields :
                      getCanonicalType(FieldsOf(E.Ty)[DestElementSources[i] + 1].Ty)
                        = getCanonicalType(FieldsOf(DestTy)[i].Ty)
                   THEN CR_Identity
                   ELSE CR_Invalid

\* C13 witness: a call result of tuple type whose elements all line up with
\* the destination fields, one of them an Int bound to a field of type
\* () -> Int, to which an Int expression converts as an auto-closure; the
\* reconciliation is Invalid.
C13_Witness ==
  /\ BindingsSucceeded
  /\ ~isTupleExpr(E)
  /\ \E i \in BoundFields :
       /\ FieldsOf(DestTy)[i].Ty = FnIntTy
       /\ FieldsOf(E.Ty)[DestElementSources[i] + 1].Ty = IntTy
       /\ getConversionRank(LeafExpr("DeclRefExpr", IntTy), FnIntTy) = CR_AutoClosure
  /\ \A i \in 1..Len(DestElementSources) : i \in BoundFields
  /\ Rank = CR_Invalid


(***************************************************************************)
(* Expression trees for the walker and the printer.  A tree of n nodes is  *)
(* given by the parent of every node but the root (node 1); the children   *)
(* of a node are ordered by their number.  Null children occur where the   *)
(* code provides for them: the elements of a TupleExpr, the SubExpr of an  *)
(* UnresolvedDotExpr and the Init of a declaration in a BraceExpr; the     *)
(* other child pointers are dereferenced unconditionally by getLocStart    *)
(* (lines 55-64).                                                          *)
(***************************************************************************)
ParentMaps(n) == {p \in [2..n -> 1..n] : \A m \in 2..n : p[m] < m}

RECURSIVE SortedSeq(_)
SortedSeq(S) ==
  IF S = {} THEN <<>>
  ELSE LET m == CHOOSE x \in S : \A y \in S : x <= y
       IN <<m>> \o SortedSeq(S \ {m})

ChildrenOf(n, p, node) == SortedSeq({m \in 2..n : p[m] = node})

\* The node kinds by number of children.
LeafKinds ==
  <<"IntegerLiteral", "UnresolvedDotExpr", "TupleExpr",
    "DeclRefExpr", "BraceExpr", "AnonClosureArgExpr">>
UnaryKinds ==
  <<"TupleElementExpr", "UnresolvedDotExpr", "TupleExpr",
    "ClosureExpr", "BraceExpr", "SequenceExpr">>
BinaryKinds ==
  <<"ApplyExpr", "TupleExpr", "BinaryExpr",
    "BraceExpr", "SequenceExpr", "TupleExpr">>
NaryKinds == <<"SequenceExpr", "TupleExpr", "BraceExpr">>
Variants == 0..(Len(UnaryKinds) - 1)

\* The kind of a node: variant v rotates the kinds over the nodes, so every
\* kind occurs at every position of every tree shape.
KindFor(n, p, v, node) ==
  LET arity == Len(ChildrenOf(n, p, node))
      tbl == CASE arity = 0 -> LeafKinds
               [] arity = 1 -> UnaryKinds
               [] arity = 2 -> BinaryKinds
               [] OTHER -> NaryKinds
  IN tbl[((v + node) % Len(tbl)) + 1]

InsertAt(seq, pos, x) ==
  [i \in 1..(Len(seq) + 1) |->
     IF i < pos THEN seq[i] ELSE IF i = pos THEN x ELSE seq[i - 1]]

\* The child slots of a node.  With holes, a TupleExpr has one null element
\* and a BraceExpr ends with a declaration without initializer.
SlotsFor(n, p, v, holes, node) ==
  LET kids == ChildrenOf(n, p, node)
      kind == KindFor(n, p, v, node)
  IN CASE kind = "UnresolvedDotExpr" /\ kids = <<>> -> <<0>>
       [] kind = "TupleExpr" /\ holes ->
            InsertAt(kids, (node % (Len(kids) + 1)) + 1, 0)
       [] kind = "BraceExpr" /\ holes -> Append(kids, 0)
       [] OTHER -> kids

\* With holes the first element of a BraceExpr is a declaration with an
\* initializer and the last one a declaration without.
DeclSlotsFor(n, p, v, holes, node) ==
  IF KindFor(n, p, v, node) = "BraceExpr" /\ holes
    THEN {1, Len(ChildrenOf(n, p, node)) + 1}
    ELSE {}

InitTree ==
  \E n \in 1..MaxNodes :
    \E p \in ParentMaps(n), v \in Variants, holes \in BOOLEAN :
      /\ Kind = [node \in 1..n |-> KindFor(n, p, v, node)]
      /\ Slots = [node \in 1..n |-> SlotsFor(n, p, v, holes, node)]
      /\ DeclSlots = [node \in 1..n |-> DeclSlotsFor(n, p, v, holes, node)]
      /\ OrigSlots = Slots

Root == 1
NumNodes == Len(Kind)
Nodes == 1..NumNodes

(***************************************************************************)
(* ExprWalker, Expr.cpp:305-443, step by step.  Stack holds one frame      *)
(* [node, i] for every ProcessNode call whose Visit is running: the node   *)
(* being visited and the index (from 0) of the child slot it is at.        *)
(***************************************************************************)
\* The node a visitor may return instead of node n at PostOrder.
Replacement(n) == n + NumNodes

\* The kind and the child slots of a node; a replacement node is a new leaf.
KindOf(n) == IF n \in Nodes THEN Kind[n] ELSE "DeclRefExpr"
ChildSlots(n) == IF n \in Nodes THEN Slots[n] ELSE <<>>

\* What the visitor Fn may return (0 is the null pointer).
PreOrderResults(n) == {0, n}
PostOrderResults(n) == {0, n, Replacement(n)}

Call(n, order, out) == [node |-> n, order |-> order, out |-> out]

\* The Visit methods that test a child for null before processing it:
\* VisitTupleExpr (line 326), VisitUnresolvedDotExpr (line 335) and
\* VisitBraceExpr for a declaration's Init (line 381).
SkipsNullChild(n, i) ==
  \/ KindOf(n) \in {"TupleExpr", "UnresolvedDotExpr"}
  \/ KindOf(n) = "BraceExpr" /\ (i + 1) \in DeclSlots[n]

Top == Stack[Len(Stack)]
Pop == SubSeq(Stack, 1, Len(Stack) - 1)
AtSlot(i) == [Stack EXCEPT ![Len(Stack)] = [node |-> Top.node, i |-> i]]

\* Every returned child stored into the first slot (E->Fn for E->Arg).
StoreSlotMutant(frame) == 1

\* The slot a returned child is stored into: the one the frame is at
\* (lines 328, 339, 346, 355, 359, 365, 374, 383, 393, 404, 408).
StoreSlot(frame) == frame.i + 1

InitWalk ==
  /\ InitTree
  /\ Stack = <<>> /\ Cur = Root /\ Ret = 0 /\ wpc = "process"
  /\ Log = <<>> /\ Result = -1
  /\ IdleRank /\ IdlePrint

\* ProcessNode returning null, not the node, when the preorder call rejects.
ProcessNodePreMutant ==
  /\ wpc = "process"
  /\ \E E2 \in PreOrderResults(Cur) :
       /\ Log' = Append(Log, Call(Cur, "PreOrder", E2))
       /\ IF E2 = 0 \/ Cur = 0
            THEN Ret' = 0 /\ wpc' = "return" /\ Stack' = Stack
            ELSE /\ Stack' = Append(Stack, [node |-> Cur, i |-> 0])
                 /\ wpc' = "visit" /\ Ret' = Ret
  /\ UNCHANGED <<Cur, Result, treeVars, rankVars, printVars>>

\* ProcessNode, lines 415-416: the preorder call.  A null result skips the
\* node and returns it as it is; otherwise Visit runs (line 418), unless the
\* node is null, in which case lines 418-419 do nothing and null is returned.
ProcessNodePre ==
  /\ wpc = "process"
  /\ \E E2 \in PreOrderResults(Cur) :
       /\ Log' = Append(Log, Call(Cur, "PreOrder", E2))
       /\ IF E2 = 0 \/ Cur = 0
            THEN Ret' = Cur /\ wpc' = "return" /\ Stack' = Stack
            ELSE /\ Stack' = Append(Stack, [node |-> Cur, i |-> 0])
                 /\ wpc' = "visit" /\ Ret' = Ret
  /\ UNCHANGED <<Cur, Result, treeVars, rankVars, printVars>>

\* A Visit method steps over a null child it tests for.
VisitSkipChild ==
  /\ wpc = "visit"
  /\ Top.i < Len(ChildSlots(Top.node))
  /\ ChildSlots(Top.node)[Top.i + 1] = 0
  /\ SkipsNullChild(Top.node, Top.i)
  /\ Stack' = AtSlot(Top.i + 1)
  /\ UNCHANGED <<Cur, Ret, wpc, Log, Result, treeVars, rankVars, printVars>>

\* A Visit method taking its children from the last to the first.
VisitProcessChildMutant ==
  /\ wpc = "visit"
  /\ Top.i < Len(ChildSlots(Top.node))
  /\ ~(ChildSlots(Top.node)[Top.i + 1] = 0 /\ SkipsNullChild(Top.node, Top.i))
  /\ Cur' = ChildSlots(Top.node)[Len(ChildSlots(Top.node)) - Top.i]
  /\ wpc' = "process"
  /\ UNCHANGED <<Stack, Ret, Log, Result, treeVars, rankVars, printVars>>

\* A Visit method calls ProcessNode on its next child.
VisitProcessChild ==
  /\ wpc = "visit"
  /\ Top.i < Len(ChildSlots(Top.node))
  /\ ~(ChildSlots(Top.node)[Top.i + 1] = 0 /\ SkipsNullChild(Top.node, Top.i))
  /\ Cur' = ChildSlots(Top.node)[Top.i + 1]
  /\ wpc' = "process"
  /\ UNCHANGED <<Stack, Ret, Log, Result, treeVars, rankVars, printVars>>

\* ProcessNode returned a node to a Visit method: it is assigned to the
\* child slot and the method goes on to the next child.
VisitAssignChild ==
  /\ wpc = "return"
  /\ Stack # <<>>
  /\ Ret # 0
  /\ Slots' = [Slots EXCEPT ![Top.node][StoreSlot(Top)] = Ret]
  /\ Stack' = AtSlot(Top.i + 1)
  /\ wpc' = "visit"
  /\ UNCHANGED <<Kind, DeclSlots, OrigSlots, Cur, Ret, Log, Result, rankVars, printVars>>

\* A Visit method that goes on to the next child when ProcessNode returned
\* null.
VisitAbortMutant ==
  /\ wpc = "return"
  /\ Stack # <<>>
  /\ Ret = 0
  /\ Stack' = AtSlot(Top.i + 1)
  /\ wpc' = "visit"
  /\ UNCHANGED <<Cur, Ret, Log, Result, treeVars, rankVars, printVars>>

\* ProcessNode returned null to a Visit method: the method returns 0, and so
\* does the ProcessNode call that ran it (lines 418-420, E is null).
VisitAbort ==
  /\ wpc = "return"
  /\ Stack # <<>>
  /\ Ret = 0
  /\ Stack' = Pop
  /\ UNCHANGED <<Cur, Ret, wpc, Log, Result, treeVars, rankVars, printVars>>

\* A Visit method is through with its children and returns E; ProcessNode
\* makes the postorder call and returns its result (lines 419-420).
ProcessNodePost ==
  /\ wpc = "visit"
  /\ Top.i = Len(ChildSlots(Top.node))
  /\ \E E2 \in PostOrderResults(Top.node) :
       /\ Log' = Append(Log, Call(Top.node, "PostOrder", E2))
       /\ Ret' = E2
  /\ Stack' = Pop
  /\ wpc' = "return"
  /\ UNCHANGED <<Cur, Result, treeVars, rankVars, printVars>>

\* doIt and WalkExpr return what ProcessNode returned for the root
\* (lines 427-429, 440-443).
WalkReturn ==
  /\ wpc = "return"
  /\ Stack = <<>>
  /\ Result' = Ret
  /\ wpc' = "done"
  /\ UNCHANGED <<Stack, Cur, Ret, Log, treeVars, rankVars, printVars>>

NextWalk ==
  \/ ProcessNodePre
  \/ VisitSkipChild
  \/ VisitProcessChild
  \/ VisitAssignChild
  \/ VisitAbort
  \/ ProcessNodePost
  \/ WalkReturn

SpecWalk == InitWalk /\ [][NextWalk]_vars


(***************************************************************************)
(* Properties of the walker.                                               *)
(***************************************************************************)
\* The children a node had before the walk, and their descendants.
OrigChildren(n) == {OrigSlots[n][i] : i \in 1..Len(OrigSlots[n])} \ {0}
RECURSIVE Descendants(_)
Descendants(n) ==
  OrigChildren(n) \cup UNION {Descendants(c) : c \in OrigChildren(n)}
Ancestors(n) == {a \in Nodes : n \in Descendants(a)}
ParentOf(c) == CHOOSE a \in Nodes : c \in OrigChildren(a)
SlotOf(c) == CHOOSE i \in 1..Len(OrigSlots[ParentOf(c)]) : OrigSlots[ParentOf(c)][i] = c
\* The siblings of c in the slots after its own.
LaterSiblings(c) ==
  IF c = Root THEN {}
  ELSE {OrigSlots[ParentOf(c)][i] :
          i \in (SlotOf(c) + 1)..Len(OrigSlots[ParentOf(c)])} \ {0}

\* The positions in Log of the visitor calls on node n.
Calls(n, order) == {k \in 1..Len(Log) : Log[k].node = n /\ Log[k].order = order}
IsAbort(k) == Log[k].order = "PostOrder" /\ Log[k].out = 0
IsReject(k) == Log[k].order = "PreOrder" /\ Log[k].out = 0
Aborted == \E k \in 1..Len(Log) : IsAbort(k)
Rejected(n) == \E k \in Calls(n, "PreOrder") : IsReject(k)
AnyRejected == \E k \in 1..Len(Log) : IsReject(k)

\* C6: once the visitor returns abort at PostOrder it is never invoked again
\* in that walk (no remaining sibling is visited, no ancestor gets its
\* PostOrder call) and the walk returns no value.
C6_AbortEndsTheWalk ==
  \A k \in 1..Len(Log) :
    IsAbort(k) => /\ k = Len(Log)
                  /\ wpc = "done" => Result = 0

\* C6 witness: the walk is over after an abort on a node that has a sibling
\* after it and a parent, none of which were called afterwards.
C6_Witness ==
  /\ wpc = "done"
  /\ Result = 0
  /\ Log # <<>>
  /\ IsAbort(Len(Log))
  /\ Log[Len(Log)].node # Root
  /\ LaterSiblings(Log[Len(Log)].node) # {}

\* C7: a node n rejected at PreOrder has no visitor call on any descendant
\* and no PostOrder call, stays in its parent's slot, and the walk goes on:
\* unless the visitor aborts, the later siblings of n are visited, the
\* ancestors get their PostOrder calls and the walk returns a node, the
\* original root when n is the root.
C7_RejectSkipsOnlyTheSubtree ==
  /\ \A n \in Nodes :
       Rejected(n) =>
         /\ \A d \in Descendants(n) :
              Calls(d, "PreOrder") = {} /\ Calls(d, "PostOrder") = {}
         /\ Calls(n, "PostOrder") = {}
         /\ n # Root => Slots[ParentOf(n)][SlotOf(n)] = n
         /\ (wpc = "done" /\ ~Aborted) =>
              /\ \A s \in LaterSiblings(n) : Cardinality(Calls(s, "PreOrder")) = 1
              /\ \A a \in Ancestors(n) : Cardinality(Calls(a, "PostOrder")) = 1
         /\ (wpc = "done" /\ n = Root) => Result = Root
  /\ (wpc = "done" /\ ~Aborted) => Result # 0

\* C7 witness: a finished walk without abort in which a rejected node has a
\* child and a sibling after it.
C7_Witness ==
  /\ wpc = "done"
  /\ ~Aborted
  /\ \E n \in Nodes \ {Root} :
       /\ Rejected(n)
       /\ Descendants(n) # {}
       /\ LaterSiblings(n) # {}

\* C8: in a walk without reject and without abort every node gets exactly
\* one PreOrder and one PostOrder call, its PreOrder call before and its
\* PostOrder call after every call on its descendants, and the children of a
\* node are processed in slot order.
C8_CallOrdering ==
  (wpc = "done" /\ ~Aborted /\ ~AnyRejected) =>
    \A n \in Nodes :
      /\ Cardinality(Calls(n, "PreOrder")) = 1
      /\ Cardinality(Calls(n, "PostOrder")) = 1
      /\ \A d \in Descendants(n) :
           \A kn \in Calls(n, "PreOrder"), ln \in Calls(n, "PostOrder") :
             \A kd \in Calls(d, "PreOrder") \cup Calls(d, "PostOrder") :
               kn < kd /\ kd < ln
      /\ \A s \in LaterSiblings(n) :
           \A ln \in Calls(n, "PostOrder"), ks \in Calls(s, "PreOrder") : ln < ks

\* C8 witness: a complete walk over a node with two children, one of which
\* has a child of its own.
C8_Witness ==
  /\ wpc = "done"
  /\ ~Aborted /\ ~AnyRejected
  /\ \E n \in Nodes :
       /\ Cardinality(OrigChildren(n)) = 2
       /\ \E c \in OrigChildren(n) : OrigChildren(c) # {}

\* What ProcessNode returned for child c, as the visitor's answers tell: c
\* itself when rejected at PreOrder, the PostOrder result otherwise; 0 when
\* the processing of c aborted or never began.
ReturnedFor(c) ==
  IF Rejected(c) THEN c
  ELSE IF Calls(c, "PostOrder") # {}
    THEN Log[CHOOSE k \in Calls(c, "PostOrder") : TRUE].out
  ELSE 0

\* C9: at the end of any walk, completed or aborted, a child slot whose
\* child was fully processed holds the node returned for it, and every
\* other slot holds its original value: rewrites made before an abort stay.
C9_RewriteWithoutRollback ==
  wpc = "done" =>
    \A n \in Nodes :
      /\ Len(Slots[n]) = Len(OrigSlots[n])
      /\ \A i \in 1..Len(OrigSlots[n]) :
           LET c == OrigSlots[n][i]
           IN Slots[n][i] = IF c # 0 /\ ReturnedFor(c) # 0
                              THEN ReturnedFor(c)
                              ELSE c

\* C9 witness: an aborted walk that leaves a replaced child in one slot and
\* the untouched original in a later slot of the same node.
C9_Witness ==
  /\ wpc = "done"
  /\ Result = 0
  /\ \E n \in Nodes :
       \E i, j \in 1..Len(OrigSlots[n]) :
         /\ i < j
         /\ OrigSlots[n][i] # 0
         /\ Slots[n][i] = Replacement(OrigSlots[n][i])
         /\ OrigSlots[n][j] # 0
         /\ Slots[n][j] = OrigSlots[n][j]
         /\ Calls(OrigSlots[n][j], "PostOrder") = {}


(***************************************************************************)
(* PrintExpr, Expr.cpp:450-590.  The output stream is the sequence of the  *)
(* pieces written to it: [Indent, Text] is OS.indent(Indent) << Text, and  *)
(* a piece written without indentation has Indent 0.  The attributes of a  *)
(* clause (type, names, values) come from the type system and the          *)
(* declaration model and are left out of Text.                             *)
(***************************************************************************)
Piece(indent, text) == [Indent |-> indent, Text |-> text]
NullExpression == "(**NULL EXPRESSION**)"
TupleDefault == "<<tuple element default value>>"
DeclClause == "(decl"

\* The opening of the clause of each node kind.
Header(kind) ==
  CASE kind = "IntegerLiteral" -> "(integer_literal"
    [] kind = "DeclRefExpr" -> "(declref_expr"
    [] kind = "AnonClosureArgExpr" -> "(anon_closure_arg_expr"
    [] kind = "TupleExpr" -> "(tuple_expr"
    [] kind = "UnresolvedDotExpr" -> "(unresolved_dot_expr"
    [] kind = "TupleElementExpr" -> "(tuple_element_expr"
    [] kind = "ApplyExpr" -> "(apply_expr"
    [] kind = "SequenceExpr" -> "(sequence_expr"
    [] kind = "BraceExpr" -> "(brace_expr"
    [] kind = "ClosureExpr" -> "(closure_expr"
    [] kind = "BinaryExpr" -> "(binary_expr"

RECURSIVE VisitExpr(_, _)
RECURSIVE PrintElements(_, _, _)

\* PrintRec(Expr*) printing nothing for a null expression.
PrintRecMutant(n, Indent) ==
  IF n # 0 THEN VisitExpr(n, Indent + 2) ELSE <<>>

\* PrintRec(Expr*), lines 460-467.
PrintRec(n, Indent) ==
  IF n # 0
    THEN VisitExpr(n, Indent + 2)
    ELSE <<Piece(Indent + 2, NullExpression)>>

\* PrintRec(Decl*), lines 469-471: the declaration prints itself.
PrintRecDecl(Indent) == <<Piece(Indent + 2, DeclClause), Piece(0, ")")>>

\* What the printer writes for element i (from 1) of node n after the line
\* break: VisitTupleExpr lines 502-505, VisitBraceExpr lines 545-548, and
\* PrintRec for the other kinds.
PrintElement(n, i, Indent) ==
  CASE Kind[n] = "TupleExpr" /\ Slots[n][i] = 0 ->
         <<Piece(Indent + 2, TupleDefault)>>
    [] Kind[n] = "BraceExpr" /\ i \in DeclSlots[n] -> PrintRecDecl(Indent)
    [] OTHER -> PrintRec(Slots[n][i], Indent)

\* The loops of VisitTupleExpr, VisitSequenceExpr and VisitBraceExpr and the
\* straight-line code of the other Visit methods: a line break and the
\* element, from element i on.
PrintElements(n, i, Indent) ==
  IF i > Len(Slots[n]) THEN <<>>
  ELSE <<Piece(0, "\n")>> \o PrintElement(n, i, Indent)
         \o PrintElements(n, i + 1, Indent)

\* The Visit methods, lines 473-577.  VisitUnresolvedDotExpr writes its
\* SubExpr only if there is one (lines 514-517).
VisitExpr(n, Indent) ==
  <<Piece(Indent, Header(Kind[n]))>>
    \o (IF Kind[n] = "UnresolvedDotExpr" /\ Slots[n][1] = 0
          THEN <<>>
          ELSE PrintElements(n, 1, Indent))
    \o <<Piece(0, ")")>>

\* Expr::print, lines 588-590.
PrintTree(Indent) == VisitExpr(Root, Indent)

\* The tree with the child slot that holds node m emptied (m = 0 or the root:
\* nothing).  An element of a BraceExpr is a pointer union that always holds
\* an expression or a declaration, so it is not emptied.
WithoutNode(slots, kinds, m) ==
  [n \in DOMAIN slots |->
     [i \in DOMAIN slots[n] |->
        IF slots[n][i] = m /\ kinds[n] # "BraceExpr" THEN 0 ELSE slots[n][i]]]

\* The printer is a debugging aid and takes any tree, also one with a child
\* missing where no other code expects it.
InitPrint ==
  /\ \E n \in 1..MaxNodes :
       \E p \in ParentMaps(n), v \in Variants, holes \in BOOLEAN, m \in 0..n :
         /\ Kind = [node \in 1..n |-> KindFor(n, p, v, node)]
         /\ Slots = WithoutNode([node \in 1..n |-> SlotsFor(n, p, v, holes, node)],
                                [node \in 1..n |-> KindFor(n, p, v, node)],
                                IF m = 1 THEN 0 ELSE m)
         /\ DeclSlots = [node \in 1..n |-> DeclSlotsFor(n, p, v, holes, node)]
         /\ OrigSlots = Slots
  /\ OS = <<>> /\ ppc = "print"
  /\ IdleRank /\ IdleWalk

\* Expr::dump, lines 583-586: print at indentation 0 and end the line.
Dump ==
  /\ ppc = "print"
  /\ OS' = PrintTree(0) \o <<Piece(0, "\n")>>
  /\ ppc' = "done"
  /\ UNCHANGED <<rankVars, treeVars, walkVars>>

NextPrint == Dump

SpecPrint == InitPrint /\ [][NextPrint]_vars

(***************************************************************************)
(* Properties of the printer.                                              *)
(***************************************************************************)
Headers ==
  {Header(k) : k \in {"IntegerLiteral", "DeclRefExpr", "AnonClosureArgExpr",
                      "TupleExpr", "UnresolvedDotExpr", "TupleElementExpr",
                      "ApplyExpr", "SequenceExpr", "BraceExpr", "ClosureExpr",
                      "BinaryExpr"}} \cup {DeclClause}
Placeholders == {NullExpression, TupleDefault}

\* The number of clauses and placeholders directly inside the outermost
\* clause of the output out, read from piece k on at nesting depth.
RECURSIVE ChildItems(_, _, _)
ChildItems(out, k, depth) ==
  IF k > Len(out) THEN 0
  ELSE CASE out[k].Text \in Headers ->
              (IF depth = 1 THEN 1 ELSE 0) + ChildItems(out, k + 1, depth + 1)
         [] out[k].Text = ")" -> ChildItems(out, k + 1, depth - 1)
         [] out[k].Text \in Placeholders ->
              (IF depth = 1 THEN 1 ELSE 0) + ChildItems(out, k + 1, depth)
         [] OTHER -> ChildItems(out, k + 1, depth)

\* The nodes the printer reaches from node n (a declaration prints itself).
RECURSIVE PrintedFrom(_)
PrintedFrom(n) ==
  LET kids == {Slots[n][i] : i \in {j \in 1..Len(Slots[n]) : j \notin DeclSlots[n]}} \ {0}
  IN {n} \cup UNION {PrintedFrom(c) : c \in kids}

RECURSIVE SumSlots(_)
SumSlots(S) ==
  IF S = {} THEN 0
  ELSE LET n == CHOOSE x \in S : TRUE
       IN Len(Slots[n]) + SumSlots(S \ {n})

\* All clauses and placeholders of the output but the outermost clause.
AllItems(out) ==
  Cardinality({k \in 2..Len(out) : out[k].Text \in Headers \cup Placeholders})

\* The printed nodes that are an UnresolvedDotExpr without SubExpr.
BareDots ==
  {n \in PrintedFrom(Root) : Kind[n] = "UnresolvedDotExpr" /\ Slots[n][1] = 0}

=============================================================================
